---- MODULE Spec2Model ----
(***************************************************************************)
(* Stardew save manager: the backup / restore engine of sdsm.py (command   *)
(* line) and sdsm_gui.py (Farm, Save, GameTime), over an abstract file     *)
(* system with a Saves root and a Backup root.                             *)
(*                                                                         *)
(* File and directory names are sequences of one-character strings, so     *)
(* that glob prefixes, str.split, Path.stem and string comparison are      *)
(* computed the way the code computes them.                                *)
(***************************************************************************)
EXTENDS Integers, Sequences, FiniteSets

VARIABLES
  saves,    \* the Saves root: entry name -> [kind, files]
  backup,   \* the Backup root: entry name -> [kind, files], files: archive name -> entries
  today,    \* date.today(), an index into Dates
  scan,     \* the order in which the OS enumerates directory entries
  last,     \* the operation that ran last, with its arguments and outcome
  made,     \* history: archive path -> the originals it was written from
  ops,      \* number of steps taken so far
  codec     \* inputs and result of the pure date / name functions

vars == <<saves, backup, today, scan, last, made, ops, codec>>

(***************************************************************************)
(* Bounds                                                                  *)
(***************************************************************************)
MaxOps == 4

(***************************************************************************)
(* Characters and strings                                                  *)
(***************************************************************************)
DigitChar == <<"0", "1", "2", "3", "4", "5", "6", "7", "8", "9">>

\* ord(c) for the characters that occur in the names of this model (ASCII).
Ord(c) ==
  CASE c = " " -> 32 [] c = "-" -> 45 [] c = "." -> 46
    [] c = "0" -> 48 [] c = "1" -> 49 [] c = "2" -> 50 [] c = "3" -> 51
    [] c = "4" -> 52 [] c = "5" -> 53 [] c = "6" -> 54 [] c = "7" -> 55
    [] c = "8" -> 56 [] c = "9" -> 57
    [] c = "_" -> 95 [] c = "a" -> 97 [] c = "b" -> 98
    [] c = "i" -> 105 [] c = "p" -> 112 [] c = "z" -> 122

\* Python's str < str: the first differing character decides, a proper
\* prefix is smaller.
RECURSIVE StrLess(_, _)
StrLess(s, t) ==
  IF s = <<>> THEN t # <<>>
  ELSE IF t = <<>> THEN FALSE
  ELSE IF Head(s) = Head(t) THEN StrLess(Tail(s), Tail(t))
  ELSE Ord(Head(s)) < Ord(Head(t))

\* str(n) for n >= 0.
RECURSIVE Digits(_)
Digits(n) ==
  IF n < 10 THEN <<DigitChar[n + 1]>>
  ELSE Digits(n \div 10) \o <<DigitChar[(n % 10) + 1]>>

\* str(n), the f-string conversion "{n}".
Str(n) == IF n < 0 THEN <<"-">> \o Digits(-n) ELSE Digits(n)

RECURSIVE Zeros(_)
Zeros(k) == IF k <= 0 THEN <<>> ELSE <<"0">> \o Zeros(k - 1)

\* The f-string conversion "{n:0wd}": zero padding up to a MINIMUM width of
\* w, the sign counted in the width; a longer number is not cut.
PadZero(n, w) ==
  IF n < 0 THEN <<"-">> \o Zeros(w - 1 - Len(Digits(-n))) \o Digits(-n)
  ELSE Zeros(w - Len(Digits(n))) \o Digits(n)

Format02d(n) == PadZero(n, 2)

\* int(text) of an XML field: the texts of the model that int() accepts.
IsIntText(t) == t \in {"-5", "-4", "-1", "0", "1", "2", "3", "4"}

int(t) ==
  CASE t = "-5" -> -5 [] t = "-4" -> -4 [] t = "-1" -> -1 [] t = "0" -> 0
    [] t = "1" -> 1 [] t = "2" -> 2 [] t = "3" -> 3 [] t = "4" -> 4

(***************************************************************************)
(* sdsm.py: game_date, the name dialect                                    *)
(***************************************************************************)
\* SEASONS = {"spring": "1", "summer": "2", "fall": "3", "winter": "4"}
SEASONS ==
  [k \in {"spring", "summer", "fall", "winter"} |->
     CASE k = "spring" -> "1" [] k = "summer" -> "2"
       [] k = "fall" -> "3" [] k = "winter" -> "4"]

\* A failed call is [ok |-> FALSE, err |-> exception]; a successful one
\* carries the value.
Fail(e) == [ok |-> FALSE, err |-> e, short |-> <<>>, season_no |-> 0, season |-> ""]

\* game_date(save_file) on the parsed fields year / currentSeason /
\* dayOfMonth: SEASONS[season] raises KeyError for an unknown key.
game_date_fields(year, season, day) ==
  IF season \notin DOMAIN SEASONS THEN Fail("KeyError")
  ELSE [ok |-> TRUE, err |-> "",
        short |-> Format02d(year) \o <<"-">> \o <<SEASONS[season]>> \o
                  <<"-">> \o Format02d(day),
        season_no |-> int(SEASONS[season]) - 1, season |-> season]

(***************************************************************************)
(* sdsm_gui.py: GameTime, the numeric dialect                              *)
(***************************************************************************)
GameTime_SEASONS == <<"Spring", "Summer", "Fall", "Winter">>

\* SEASONS[i] of a Python list: i in -len .. len-1 is accepted, a negative i
\* counts from the end; anything else raises IndexError.
ListIndexOk(list, i) == -Len(list) <= i /\ i <= Len(list) - 1

ListAt(list, i) == IF i < 0 THEN list[Len(list) + i + 1] ELSE list[i + 1]

\* GameTime.__init__(year, season_no, day), season_no the field's text.
GameTime(year, season_no, day) ==
  IF ~IsIntText(season_no) THEN Fail("ValueError")
  ELSE IF ~ListIndexOk(GameTime_SEASONS, int(season_no)) THEN Fail("IndexError")
  ELSE [ok |-> TRUE, err |-> "",
        short |-> Format02d(year) \o <<"-">> \o Str(int(season_no) + 1) \o
                  <<"-">> \o Format02d(day),
        season_no |-> int(season_no),
        season |-> ListAt(GameTime_SEASONS, int(season_no))]

\* date.isoformat(): YYYY-MM-DD.
isoformat(d) ==
  PadZero(d[1], 4) \o <<"-">> \o PadZero(d[2], 2) \o <<"-">> \o PadZero(d[3], 2)

\* f"{date.today().isoformat()} {game date}.zip"
ArchiveName(d, short) == isoformat(d) \o <<" ">> \o short \o <<".", "z", "i", "p">>

(***************************************************************************)
(* The file system                                                         *)
(***************************************************************************)
None == <<>>

A0 == <<"a", "_", "0">>
A1 == <<"a", "_", "1">>
A2 == <<"a", "_", "2">>
AB3 == <<"a", ".", "b", "_", "3">>
A == <<"a">>
SaveGameInfo == <<"S", "a", "v", "e", "G", "a", "m", "e", "I", "n", "f", "o">>
Notes == <<"n", "o", "t", "e", "s">>

\* The slot directories of the Saves root, a regular file A0 beside them,
\* and every name either root can come to hold.
SlotDirs == {A1, A2, AB3}
RootPool == {A0, A1, A2, AB3, A}

\* The slot names a caller passes to save / restore.
QueryPool == {<<"a">>, <<"a", ".", "b">>, <<"z">>}

\* The wall-clock dates of the model, in order.
Dates == << <<2024, 1, 9>>, <<2024, 1, 10>> >>

\* The in-game days the game writes: (year, season index, day of month).
GamePool ==
  { [year |-> 99, season |-> 3, day |-> 28],
    [year |-> 100, season |-> 0, day |-> 1] }

GameSeasonNames == <<"spring", "summer", "fall", "winter">>

\* The save-state file and the SaveGameInfo file the game writes on day g.
SaveContent(g) ==
  [tag |-> "save", year |-> g.year, season |-> GameSeasonNames[g.season + 1],
   day |-> g.day]

InfoContent(g) ==
  [tag |-> "info", year |-> g.year, season |-> DigitChar[g.season + 1],
   day |-> g.day]

NotesContent == [tag |-> "notes", year |-> 0, season |-> "", day |-> 0]

NoFiles == [n \in {} |-> NotesContent]
Absent == [kind |-> "absent", files |-> NoFiles]
RegularFile == [kind |-> "file", files |-> NoFiles]
Dir(files) == [kind |-> "dir", files |-> files]

\* f with key k set to v, k added to the domain when new.
Put(f, k, v) == [x \in DOMAIN f \cup {k} |-> IF x = k THEN v ELSE f[x]]

Remove(f, k) == [x \in DOMAIN f \ {k} |-> f[x]]

\* A slot as the game leaves it; the player keeps a notes file in slot A1.
SlotFiles(d, g) ==
  LET both == Put(Put(NoFiles, d, SaveContent(g)), SaveGameInfo, InfoContent(g))
  IN IF d = A1 THEN Put(both, Notes, NotesContent) ELSE both

\* A slot in a consistent state: save-state file and SaveGameInfo both there.
Consistent(root, d) ==
  /\ root[d].kind = "dir"
  /\ d \in DOMAIN root[d].files
  /\ SaveGameInfo \in DOMAIN root[d].files

(***************************************************************************)
(* pathlib and str helpers                                                 *)
(***************************************************************************)
\* Path.glob(f"{slot_name}_*") on one name: the literal prefix, then anything.
GlobMatch(slot_name, n) ==
  /\ Len(n) >= Len(slot_name) + 1
  /\ SubSeq(n, 1, Len(slot_name)) = slot_name
  /\ n[Len(slot_name) + 1] = "_"

\* FirstDir without the is_dir() filter: the first entry matching the pattern.
FirstDir_any(root, order, slot_name) ==
  LET hits == {i \in 1..Len(order) :
                 /\ GlobMatch(slot_name, order[i])
                 /\ root[order[i]].kind # "absent"}
  IN IF hits = {} THEN None
     ELSE order[CHOOSE i \in hits : \A j \in hits : i <= j]

\* next((d for d in root.glob(f"{slot_name}_*") if d.is_dir()), None), the
\* entries coming in the order order.
FirstDir(root, order, slot_name) ==
  LET hits == {i \in 1..Len(order) :
                 /\ GlobMatch(slot_name, order[i])
                 /\ root[order[i]].kind = "dir"}
  IN IF hits = {} THEN None
     ELSE order[CHOOSE i \in hits : \A j \in hits : i <= j]

\* name.split("_")[0]: the text before the first "_", all of it without one.
SplitFirst(n) ==
  LET us == {i \in 1..Len(n) : n[i] = "_"}
  IN IF us = {} THEN n
     ELSE SubSeq(n, 1, (CHOOSE i \in us : \A j \in us : i <= j) - 1)

\* PurePath.stem: the name without its last suffix; the suffix starts at the
\* last "." unless that is the first or the last character.
Stem(n) ==
  LET dots == {i \in 1..Len(n) : n[i] = "."}
      i == IF dots = {} THEN 0 ELSE CHOOSE k \in dots : \A j \in dots : j <= k
  IN IF 1 < i /\ i < Len(n) THEN SubSeq(n, 1, i - 1) ELSE n

\* Path.mkdir(parents=True, exist_ok=True).
MkdirOk(root, n) == root[n].kind # "file"

Mkdir(root, n) ==
  IF root[n].kind = "absent" THEN [root EXCEPT ![n] = Dir(NoFiles)] ELSE root

\* sorted(paths)[0] over the archive names of one directory.
SortedFirst(names) == CHOOSE n \in names : \A m \in names : m = n \/ StrLess(n, m)

ArchiveNames(root, d) == DOMAIN root[d].files

(***************************************************************************)
(* sdsm.py: save, restore, _restore and the save-all loop of __main__      *)
(***************************************************************************)
\* What an operation reports: its exception ("ok" when it returns normally),
\* the two roots after it, the directory it resolved, the archive it wrote or
\* extracted, the archive paths it wrote, and the history of originals
\* (per archive path: the slot, its files, the date and the in-game day it
\* was written from).
Outcome(status, sv, bk, mk, dir, name, created) ==
  [status |-> status, saves |-> sv, backup |-> bk, made |-> mk, dir |-> dir,
   name |-> name, created |-> created]

\* game_date(save_file): ET.parse fails on a missing file, root.find(..).text
\* on a document without the fields of the save-state file.
game_date(files, file) ==
  IF file \notin DOMAIN files THEN Fail("FileNotFoundError")
  ELSE IF files[file].tag # "save" THEN Fail("AttributeError")
  ELSE game_date_fields(files[file].year, files[file].season, files[file].day)

\* zip_path.touch(); ZipFile(zip_path, "w"); zf.write(..) per member in
\* order: the archive is created empty and keeps the members written before a
\* missing member raises; the with block closes it in either case.
RECURSIVE ZipWrite(_, _, _)
ZipWrite(files, members, entries) ==
  IF members = <<>> THEN [ok |-> TRUE, entries |-> entries]
  ELSE IF Head(members) \notin DOMAIN files THEN [ok |-> FALSE, entries |-> entries]
  ELSE ZipWrite(files, Tail(members),
                Put(entries, Head(members), files[Head(members)]))

\* save(slot_name), lines 23-36.
save(slot_name, sv, bk, mk, order, day) ==
  LET save_dir == FirstDir(sv, order, slot_name)
      files == sv[save_dir].files
      bk1 == Mkdir(bk, save_dir)
      gd == game_date(files, save_dir)
      file_name == ArchiveName(day, gd.short)
      zip == ZipWrite(files, <<save_dir, SaveGameInfo>>, NoFiles)
      bk2 == [bk1 EXCEPT ![save_dir].files = Put(@, file_name, zip.entries)]
      mk2 == Put(mk, <<save_dir, file_name>>,
                 [slot |-> save_dir, files |-> files, by |-> "save", date |-> day,
                  game |-> <<files[save_dir].year, gd.season_no, files[save_dir].day>>])
  IN IF save_dir = None
       THEN Outcome("ValueError", sv, bk, mk, None, None, {})
     ELSE IF ~MkdirOk(bk, save_dir)
       THEN Outcome("FileExistsError", sv, bk, mk, save_dir, None, {})
     ELSE IF ~gd.ok
       THEN Outcome(gd.err, sv, bk1, mk, save_dir, None, {})
     ELSE Outcome(IF zip.ok THEN "ok" ELSE "FileNotFoundError", sv, bk2, mk2,
                  save_dir, file_name, {<<save_dir, file_name>>})

\* extractall emptying the destination first: only the members remain.
extractall_clean(sv, bk, archive_dir, archive_name, dest) ==
  IF bk[archive_dir].kind # "dir" \/ archive_name \notin DOMAIN bk[archive_dir].files
    THEN [status |-> "FileNotFoundError", saves |-> sv]
  ELSE IF sv[dest].kind = "file"
    THEN [status |-> "NotADirectoryError", saves |-> sv]
  ELSE [status |-> "ok",
        saves |-> [sv EXCEPT ![dest] = Dir(bk[archive_dir].files[archive_name])]]

\* ZipFile(archive).extractall(path=save_dir): every member is written under
\* save_dir, which is created when a member needs it; members replace files
\* of the same name, other files stay.
extractall(sv, bk, archive_dir, archive_name, dest) ==
  LET entries == bk[archive_dir].files[archive_name]
      old == sv[dest].files
      new == [n \in DOMAIN old \cup DOMAIN entries |->
                IF n \in DOMAIN entries THEN entries[n] ELSE old[n]]
  IN IF bk[archive_dir].kind # "dir" \/ archive_name \notin DOMAIN bk[archive_dir].files
       THEN [status |-> "FileNotFoundError", saves |-> sv]
     ELSE IF DOMAIN entries = {}
       THEN [status |-> "ok", saves |-> sv]
     ELSE IF sv[dest].kind = "file"
       THEN [status |-> "NotADirectoryError", saves |-> sv]
     ELSE [status |-> "ok", saves |-> [sv EXCEPT ![dest] = Dir(new)]]

\* _restore(archive), lines 50-55: the slot is the archive's parent directory.
_restore(sv, bk, mk, archive_dir, archive_name) ==
  LET slot_name == archive_dir
      x == extractall(sv, bk, archive_dir, archive_name, slot_name)
  IN Outcome(x.status, x.saves, bk, mk, archive_dir, archive_name, {})

\* restore(slot_name, file_name), lines 39-47.
restore(slot_name, file_name, sv, bk, mk, order) ==
  LET bu_dir == FirstDir(bk, order, slot_name)
      names == ArchiveNames(bk, bu_dir)
  IN IF bu_dir = None
       THEN Outcome("ValueError", sv, bk, mk, None, None, {})
     ELSE IF file_name = None
       THEN IF names = {}
              THEN Outcome("IndexError", sv, bk, mk, bu_dir, None, {})
              ELSE _restore(sv, bk, mk, bu_dir, SortedFirst(names))
     ELSE IF file_name \in names
       THEN _restore(sv, bk, mk, bu_dir, file_name)
     ELSE Outcome("ok", sv, bk, mk, bu_dir, None, {})

\* __main__, save mode without --slot, lines 72-74: every entry of the Saves
\* root in enumeration order; an exception of save ends the loop.
RECURSIVE main_save_all(_, _, _, _, _, _, _)
main_save_all(i, sv, bk, mk, order, day, created) ==
  IF i > Len(order) THEN Outcome("ok", sv, bk, mk, None, None, created)
  ELSE IF sv[order[i]].kind # "dir"
    THEN main_save_all(i + 1, sv, bk, mk, order, day, created)
  ELSE LET r == save(SplitFirst(order[i]), sv, bk, mk, order, day)
       IN IF r.status # "ok"
            THEN Outcome(r.status, sv, r.backup, r.made, r.dir, r.name,
                         created \cup r.created)
          ELSE main_save_all(i + 1, sv, r.backup, r.made, order, day,
                             created \cup r.created)

(***************************************************************************)
(* sdsm_gui.py: Farm.save, Save.restore, the delete button                 *)
(***************************************************************************)
\* Farm.__init__: full_name = path.stem, name = full_name.split("_", 1)[0],
\* save_file = save_dir / full_name, backup_dir = Backup / full_name.
Farm(path) ==
  [save_dir |-> path, full_name |-> Stem(path), name |-> SplitFirst(Stem(path)),
   save_file |-> Stem(path), game_info |-> SaveGameInfo, backup_dir |-> Stem(path)]

\* GameTime.from_savegame(save_game_info), lines 47-53.
from_savegame(files, file) ==
  IF file \notin DOMAIN files THEN Fail("FileNotFoundError")
  ELSE IF files[file].tag # "info" THEN Fail("AttributeError")
  ELSE GameTime(files[file].year, files[file].season, files[file].day)

\* Farm.save(), lines 91-100, with the default target_dir and file_name.
Farm_save(path, sv, bk, mk, day) ==
  LET self == Farm(path)
      files == sv[self.save_dir].files
      target_dir == self.backup_dir
      bk1 == Mkdir(bk, target_dir)
      gd == from_savegame(files, self.game_info)
      file_name == ArchiveName(day, gd.short)
      zip == ZipWrite(files, <<self.save_file, self.game_info>>, NoFiles)
      bk2 == [bk1 EXCEPT ![target_dir].files = Put(@, file_name, zip.entries)]
      mk2 == Put(mk, <<target_dir, file_name>>,
                 [slot |-> path, files |-> files, by |-> "Farm.save", date |-> day,
                  game |-> <<files[self.game_info].year, gd.season_no,
                             files[self.game_info].day>>])
  IN IF ~MkdirOk(bk, target_dir)
       THEN Outcome("FileExistsError", sv, bk, mk, target_dir, None, {})
     ELSE IF ~gd.ok
       THEN Outcome(gd.err, sv, bk1, mk, target_dir, None, {})
     ELSE Outcome(IF zip.ok THEN "ok" ELSE "FileNotFoundError", sv, bk2, mk2,
                  target_dir, file_name, {<<target_dir, file_name>>})

\* Save.farm and Save.restore, lines 125-131: the farm's save_dir is
\* Saves / <name of the archive's directory>.
Save_restore(sv, bk, mk, archive_dir, archive_name) ==
  LET farm == Farm(archive_dir)
      x == extractall(sv, bk, archive_dir, archive_name, farm.save_dir)
  IN Outcome(x.status, x.saves, bk, mk, archive_dir, archive_name, {})

\* MainWindow._on_delete_click, lines 310-315: current_save.path.unlink().
delete(sv, bk, mk, archive_dir, archive_name) ==
  IF bk[archive_dir].kind # "dir" \/ archive_name \notin DOMAIN bk[archive_dir].files
    THEN Outcome("FileNotFoundError", sv, bk, mk, archive_dir, archive_name, {})
  ELSE Outcome("ok", sv,
               [bk EXCEPT ![archive_dir].files = Remove(@, archive_name)],
               Remove(mk, <<archive_dir, archive_name>>),
               archive_dir, archive_name, {})

(***************************************************************************)
(* The state machine                                                       *)
(***************************************************************************)
\* A file name no backup ever had: a --file_name that matches nothing, or a
\* list row whose archive was removed behind the window's back.
Missing == <<"x", ".", "z", "i", "p">>

NoCodec == [op |-> "none"]

\* The enumeration orders of the model: os.scandir promises none. The three
\* rotations put every slot directory first, in the middle and last, and
\* each of A1 and A2 before the other.
ScanOrders ==
  { <<A0, A1, A2, AB3, A>>, <<A0, A2, AB3, A1, A>>, <<A0, AB3, A1, A2, A>> }

\* before: the Saves entry of the resolved directory as the operation found it.
Ran(op, slot, file, r) ==
  [op |-> op, slot |-> slot, file |-> file, status |-> r.status, dir |-> r.dir,
   name |-> r.name, created |-> r.created,
   before |-> IF r.dir = None THEN Absent ELSE saves[r.dir]]

Idle(op) ==
  [op |-> op, slot |-> None, file |-> None, status |-> "ok", dir |-> None,
   name |-> None, created |-> {}, before |-> Absent]

\* The file names worth passing to restore: those of the directory it will
\* find, and one that is in no directory.
FileNameChoices(slot_name) ==
  LET bu_dir == FirstDir(backup, scan, slot_name)
  IN {None, Missing} \cup (IF bu_dir = None THEN {} ELSE ArchiveNames(backup, bu_dir))

\* MainWindow._populate_farms: the directories of Saves matching "*_*".
Farms == {d \in RootPool : saves[d].kind = "dir" /\ \E i \in 1..Len(d) : d[i] = "_"}

\* The Saves root at the start: three slots saved on Winter 28 of year 99,
\* and a regular file whose name matches "a_*".
InitialSaves ==
  [n \in RootPool |->
     IF n \in SlotDirs THEN Dir(SlotFiles(n, [year |-> 99, season |-> 3, day |-> 28]))
     ELSE IF n = A0 THEN RegularFile ELSE Absent]

Init ==
  /\ saves = InitialSaves
  /\ backup = [n \in RootPool |-> Absent]
  /\ today = 1
  /\ scan \in ScanOrders
  /\ last = Idle("init")
  /\ made = NoFiles
  /\ ops = 0
  /\ codec = NoCodec

Apply(op, slot, file, r) ==
  /\ ops < MaxOps
  /\ ops' = ops + 1
  /\ saves' = r.saves
  /\ backup' = r.backup
  /\ made' = r.made
  /\ last' = Ran(op, slot, file, r)
  /\ UNCHANGED <<today, scan, codec>>

\* python sdsm.py s --slot <slot_name>
CliSave ==
  \E slot_name \in QueryPool :
    Apply("save", slot_name, None,
          save(slot_name, saves, backup, made, scan, Dates[today]))

\* python sdsm.py r --slot <slot_name> [--file_name <file_name>]
CliRestore ==
  \E slot_name \in QueryPool : \E file_name \in FileNameChoices(slot_name) :
    Apply("restore", slot_name, file_name,
          restore(slot_name, file_name, saves, backup, made, scan))

\* python sdsm.py s
CliSaveAll ==
  Apply("main", None, None,
        main_save_all(1, saves, backup, made, scan, Dates[today], {}))

\* MainWindow._on_save_click on the selected farm.
GuiSave ==
  \E path \in Farms :
    Apply("Farm.save", path, None, Farm_save(path, saves, backup, made, Dates[today]))

\* MainWindow._on_restore_click on a row of the selected farm's backup list.
GuiRestore ==
  \E path \in Farms :
    \E name \in DOMAIN backup[Farm(path).backup_dir].files \cup {Missing} :
      Apply("Save.restore", Farm(path).backup_dir, name,
            Save_restore(saves, backup, made, Farm(path).backup_dir, name))

\* MainWindow._on_delete_click on a row of the selected farm's backup list.
GuiDelete ==
  \E path \in Farms :
    \E name \in DOMAIN backup[Farm(path).backup_dir].files :
      Apply("delete", Farm(path).backup_dir, name,
            delete(saves, backup, made, Farm(path).backup_dir, name))

\* The game saves slot d on in-game day g: both files are rewritten.
GameSaves ==
  \E d \in SlotDirs, g \in GamePool :
    /\ ops < MaxOps
    /\ saves[d].kind = "dir"
    /\ saves' = [saves EXCEPT ![d].files =
                   Put(Put(@, d, SaveContent(g)), SaveGameInfo, InfoContent(g))]
    /\ saves' # saves
    /\ ops' = ops + 1
    /\ last' = Idle("game")
    /\ UNCHANGED <<backup, today, scan, made, codec>>

\* A file of slot d is lost outside the program (a partial, corrupt slot).
FileLost ==
  \E d \in SlotDirs : \E f \in DOMAIN saves[d].files :
    /\ ops < MaxOps
    /\ saves[d].kind = "dir"
    /\ saves' = [saves EXCEPT ![d].files = Remove(@, f)]
    /\ ops' = ops + 1
    /\ last' = Idle("lost")
    /\ UNCHANGED <<backup, today, scan, made, codec>>

\* Midnight passes.
Tick ==
  /\ ops < MaxOps
  /\ today < Len(Dates)
  /\ today' = today + 1
  /\ ops' = ops + 1
  /\ last' = Idle("tick")
  /\ UNCHANGED <<saves, backup, scan, made, codec>>

Next ==
  \/ CliSave
  \/ CliRestore
  \/ CliSaveAll
  \/ GuiSave
  \/ GuiRestore
  \/ GuiDelete
  \/ GameSaves
  \/ FileLost
  \/ Tick

Spec == Init /\ [][Next]_vars

(***************************************************************************)
(* The date and name functions on their own: inputs drawn at the start,    *)
(* one function applied per step.                                          *)
(***************************************************************************)
NameTexts == {"spring", "summer", "fall", "winter",
              "Spring", "Summer", "Fall", "Winter", "autumn"}

NumberTexts == {"-5", "-4", "-1", "0", "1", "2", "3", "4"}

YearPool == {1, 99, 100}

DayPool == {5, 28, 100}

CodecInputsA ==
  [today : 1..Len(Dates), year : YearPool, season : NameTexts \cup NumberTexts,
   day : DayPool]

CodecInputsB ==
  [today : 1..Len(Dates), year : YearPool, season : {"0", "3"}, day : DayPool]

CodecState(op, a, b, ra, rb, first) ==
  [op |-> op, a |-> a, b |-> b, ra |-> ra, rb |-> rb, first |-> first]

CodecInit ==
  /\ saves = InitialSaves
  /\ backup = [n \in RootPool |-> Absent]
  /\ today = 1
  /\ scan = <<A0, A1, A2, AB3, A>>
  /\ last = Idle("init")
  /\ made = NoFiles
  /\ ops = 0
  /\ codec \in {CodecState("input", a, b, Fail(""), Fail(""), None) :
                  a \in CodecInputsA, b \in CodecInputsB}

\* game_date on a save-state file holding the fields of input a.
CodecGameDate ==
  /\ codec.op = "input"
  /\ codec' = CodecState("game_date", codec.a, codec.b,
                         game_date_fields(codec.a.year, codec.a.season, codec.a.day),
                         Fail(""), None)
  /\ UNCHANGED <<saves, backup, today, scan, last, made, ops>>

\* GameTime.from_savegame on a SaveGameInfo holding the fields of input a.
CodecFromSavegame ==
  /\ codec.op = "input"
  /\ codec' = CodecState("from_savegame", codec.a, codec.b,
                         GameTime(codec.a.year, codec.a.season, codec.a.day),
                         Fail(""), None)
  /\ UNCHANGED <<saves, backup, today, scan, last, made, ops>>

\* The archive names of both inputs, and sorted(..)[0] of the two.
CodecSorted ==
  /\ codec.op = "input"
  /\ LET ra == GameTime(codec.a.year, codec.a.season, codec.a.day)
         rb == GameTime(codec.b.year, codec.b.season, codec.b.day)
         na == ArchiveName(Dates[codec.a.today], ra.short)
         nb == ArchiveName(Dates[codec.b.today], rb.short)
     IN /\ ra.ok /\ rb.ok
        /\ codec' = CodecState("sorted", codec.a, codec.b,
                               [ra EXCEPT !.short = na], [rb EXCEPT !.short = nb],
                               SortedFirst({na, nb}))
  /\ UNCHANGED <<saves, backup, today, scan, last, made, ops>>

CodecNext ==
  \/ CodecGameDate
  \/ CodecFromSavegame
  \/ CodecSorted

CodecSpec == CodecInit /\ [][CodecNext]_vars

(***************************************************************************)
(* Properties                                                              *)
(***************************************************************************)
\* Lexicographic order on tuples of integers.
RECURSIVE TupleLess(_, _)
TupleLess(s, t) ==
  IF s = <<>> \/ t = <<>> THEN FALSE
  ELSE IF Head(s) = Head(t) THEN TupleLess(Tail(s), Tail(t))
  ELSE Head(s) < Head(t)

ValidIndexTexts == {"0", "1", "2", "3"}

SpecSeasonNames == <<"Spring", "Summer", "Fall", "Winter">>

IndexOf(list, x) == CHOOSE i \in 1..Len(list) : list[i] = x

\* YY-S-DD for season index i (0-based).
CompactForm(year, i, day) ==
  Format02d(year) \o <<"-", DigitChar[i + 2], "-">> \o Format02d(day)

\* The in-game day a file of the game holds, as (year, season index, day).
GameDayOf(c) ==
  <<c.year,
    IF c.tag = "save" THEN IndexOf(GameSeasonNames, c.season) - 1 ELSE int(c.season),
    c.day>>

TwoFiles(slot, files) ==
  Put(Put(NoFiles, slot, files[slot]), SaveGameInfo, files[SaveGameInfo])

\* C1: restoring, into a destination that held no file, an archive that
\* Farm.save wrote from a consistent slot leaves the destination holding
\* exactly <fullSlotName> and SaveGameInfo with the contents of backup time.
C1_RoundTrip ==
  LET p == <<last.dir, last.name>>
  IN (/\ last.op = "Save.restore"
      /\ p \in DOMAIN made
      /\ made[p].by = "Farm.save"
      /\ {made[p].slot, SaveGameInfo} \subseteq DOMAIN made[p].files
      /\ DOMAIN last.before.files = {})
     => /\ saves[last.dir].kind = "dir"
        /\ saves[last.dir].files = TwoFiles(made[p].slot, made[p].files)

\* The same round trip for the slots whose directory name has no suffix
\* that Path.stem would cut.
RoundTripPlainNames ==
  LET p == <<last.dir, last.name>>
  IN (/\ last.op = "Save.restore"
      /\ p \in DOMAIN made
      /\ made[p].by = "Farm.save"
      /\ Stem(made[p].slot) = made[p].slot
      /\ {made[p].slot, SaveGameInfo} \subseteq DOMAIN made[p].files
      /\ DOMAIN last.before.files = {})
     => /\ saves[last.dir].kind = "dir"
        /\ saves[last.dir].files = TwoFiles(made[p].slot, made[p].files)

RoundTripPlainNamesReached ==
  LET p == <<last.dir, last.name>>
  IN /\ last.op = "Save.restore"
     /\ p \in DOMAIN made
     /\ made[p].by = "Farm.save"
     /\ Stem(made[p].slot) = made[p].slot
     /\ {made[p].slot, SaveGameInfo} \subseteq DOMAIN made[p].files
     /\ DOMAIN last.before.files = {}

\* C2: the archive names of two (today, game time) pairs with season index
\* in 0..3 compare as strings the way the pairs compare chronologically by
\* (today, year, season, day), for every year >= 0 and day >= 1.
C2_NameOrder ==
  (/\ codec.op = "sorted"
   /\ codec.a.season \in ValidIndexTexts
   /\ codec.b.season \in ValidIndexTexts)
  => (StrLess(codec.ra.short, codec.rb.short)
      <=> TupleLess(Dates[codec.a.today] \o
                      <<codec.a.year, int(codec.a.season), codec.a.day>>,
                    Dates[codec.b.today] \o
                      <<codec.b.year, int(codec.b.season), codec.b.day>>))

\* C3: a default backup (save or Farm.save) of a slot directory <full>
\* holding <full> and SaveGameInfo succeeds, leaves Backup/<full> a directory
\* and in it the archive "<today ISO> <YY-S-DD>.zip" of the slot's in-game
\* day, with exactly the entries <full> and SaveGameInfo.
C3_DefaultBackup ==
  LET full == IF last.op = "save" THEN last.dir ELSE last.slot
  IN (/\ last.op \in {"save", "Farm.save"}
      /\ full # None
      /\ Consistent(saves, full))
     => LET c == IF last.op = "save" THEN saves[full].files[full]
                 ELSE saves[full].files[SaveGameInfo]
            g == GameDayOf(c)
            n == ArchiveName(Dates[today], CompactForm(g[1], g[2], g[3]))
        IN /\ last.status = "ok"
           /\ backup[full].kind = "dir"
           /\ n \in DOMAIN backup[full].files
           /\ DOMAIN backup[full].files[n] = {full, SaveGameInfo}

\* C4: restore without a file name extracts, of the archives of the backup
\* directory it found, the one whose file name is lexicographically first,
\* which is the earliest by creation date, then in-game day.
C4_RestoreFirst ==
  (/\ last.op = "restore"
   /\ last.file = None
   /\ last.dir # None
   /\ ArchiveNames(backup, last.dir) # {})
  => LET names == ArchiveNames(backup, last.dir)
         when(m) == made[<<last.dir, m>>].date \o made[<<last.dir, m>>].game
     IN /\ last.name \in names
        /\ \A m \in names \ {last.name} : StrLess(last.name, m)
        /\ \A m \in names : ~TupleLess(when(m), when(last.name))
        /\ last.status = "ok" =>
             \A f \in DOMAIN backup[last.dir].files[last.name] :
               /\ f \in DOMAIN saves[last.dir].files
               /\ saves[last.dir].files[f] = backup[last.dir].files[last.name][f]

\* The same selection by file name alone.
RestoreLexicographicFirst ==
  (/\ last.op = "restore"
   /\ last.file = None
   /\ last.dir # None
   /\ ArchiveNames(backup, last.dir) # {})
  => /\ last.name \in ArchiveNames(backup, last.dir)
     /\ \A m \in ArchiveNames(backup, last.dir) \ {last.name} : StrLess(last.name, m)

\* The subdirectories of a root whose name starts with "<logicalName>_".
StartsWith(n, prefix) ==
  /\ Len(prefix) <= Len(n)
  /\ \A i \in 1..Len(prefix) : n[i] = prefix[i]

Candidates(root, logicalName) ==
  {d \in RootPool : root[d].kind = "dir" /\ StartsWith(d, logicalName \o <<"_">>)}

C5_Step ==
  last'.op \in {"save", "restore"} =>
    LET root == IF last'.op = "save" THEN saves ELSE backup
        found == Candidates(root, last'.slot)
    IN /\ found = {} => /\ last'.status = "ValueError"
                        /\ saves' = saves
                        /\ backup' = backup
       /\ found # {} => last'.status # "ValueError"
       /\ Cardinality(found) = 1 => last'.dir \in found
       /\ last'.dir # None => root[last'.dir].kind = "dir"

C6_Step ==
  (/\ last'.op \in {"restore", "Save.restore"}
   /\ last'.dir # None
   /\ \/ last'.file # None /\ last'.file \notin ArchiveNames(backup, last'.dir)
      \/ last'.file = None /\ ArchiveNames(backup, last'.dir) = {})
  => /\ last'.status # "ok"
     /\ saves' = saves

\* C6: a restore whose archive is missing (a file name that is not among the
\* slot's archives, no archive at all, an archive gone since it was listed)
\* reports a failure and leaves the Saves root unchanged.
C6_MissingArchive == [][C6_Step]_vars

\* C7: game_date accepts exactly the season names Spring, Summer, Fall,
\* Winter and GameTime.from_savegame exactly the season numbers 0..3; an
\* accepted season at index i gives the season digit i + 1, any other value
\* fails.
C7_InvalidSeason ==
  /\ codec.op = "game_date" =>
       IF \E i \in 1..4 : SpecSeasonNames[i] = codec.a.season
         THEN /\ codec.ra.ok
              /\ codec.ra.short =
                   CompactForm(codec.a.year, IndexOf(SpecSeasonNames, codec.a.season) - 1,
                               codec.a.day)
         ELSE ~codec.ra.ok
  /\ codec.op = "from_savegame" =>
       IF codec.a.season \in ValidIndexTexts
         THEN /\ codec.ra.ok
              /\ codec.ra.short =
                   CompactForm(codec.a.year, int(codec.a.season), codec.a.day)
         ELSE ~codec.ra.ok

C8_Step ==
  (/\ last'.op \in {"restore", "Save.restore"}
   /\ last'.name # None)
  => LET D == last'.dir
         entries == IF last'.name \in ArchiveNames(backup, D)
                    THEN backup[D].files[last'.name] ELSE NoFiles
     IN /\ backup' = backup
        /\ \A n \in RootPool \ {D} : saves'[n] = saves[n]
        /\ DOMAIN saves'[D].files = DOMAIN saves[D].files \cup DOMAIN entries
        /\ \A f \in DOMAIN entries : saves'[D].files[f] = entries[f]
        /\ \A f \in DOMAIN saves[D].files \ DOMAIN entries :
             saves'[D].files[f] = saves[D].files[f]

\* C8: restoring an archive of directory D changes Saves/D alone: the files
\* named like an archive entry get the entry's contents, the other files of
\* Saves/D stay, every other Saves entry and the whole Backup root stay.
C8_RestoreFrame == [][C8_Step]_vars

C8_Reached ==
  /\ last.op \in {"restore", "Save.restore"}
  /\ last.status = "ok"
  /\ last.name # None
  /\ Notes \in DOMAIN last.before.files
  /\ Notes \in DOMAIN saves[last.dir].files
  /\ \E f \in DOMAIN backup[last.dir].files[last.name] :
       /\ f \in DOMAIN last.before.files
       /\ last.before.files[f] # saves[last.dir].files[f]
  /\ \E n \in SlotDirs \ {last.dir} : backup[n].kind = "dir"

\* C9: every archive in the backup directory of a slot holds exactly the two
\* entries <fullSlotName> and SaveGameInfo.
C9_TwoEntries ==
  \A d \in SlotDirs :
    \A name \in DOMAIN backup[d].files :
      DOMAIN backup[d].files[name] = {d, SaveGameInfo}

\* C10: after the save-all loop every consistent slot directory has an
\* archive under Backup/<full> written by this run.
C10_SaveAll ==
  last.op = "main" =>
    \A d \in RootPool :
      Consistent(saves, d) => \E p \in last.created : p[1] = d

====
